---- MODULE Spec2Model ----
(***************************************************************************)
(* A model of the two parts of the energy repository:                      *)
(*   - tariffs.py: Rate, Tariff, Tariff.compile_unit_rate_lookup and       *)
(*     Tariff.lookup (the minute-of-day rate table);                       *)
(*   - octopus.py: OctopusEnergyAPIClient._request / _get / _get_all (the  *)
(*     cursor-following pagination).                                       *)
(* Times of day are the "HH:MM" strings of the source, kept as their       *)
(* sign, hour and minute fields; a pandas Timedelta is its count of whole  *)
(* minutes (every Timedelta of the program is a whole number of minutes).  *)
(* URLs, paths and cursors are sequences of characters.                    *)
(***************************************************************************)
EXTENDS Integers, Sequences, FiniteSets, TLC

VARIABLES
  tpc,               \* "init" once the fields are stored, "ready" after __post_init__
  day_unit_rate,     \* Tariff.day_unit_rate
  additional_rates,  \* Tariff.additional_rates, a sequence of Rate records
  unit_rate_lookup,  \* Tariff._unit_rate_lookup: Timedelta (minutes) -> rate
  lookup_time,       \* the argument of the last Tariff.lookup call
  lookup_out,        \* what that call did: a returned value or a raised error
  server,            \* the API server: path -> page (exists, results, next)
  cpc,               \* _get_all: "idle", "loop", "returned", "raised"
  arg,               \* the path _get_all was called with
  path,              \* _get_all's local variable path
  data,              \* _get_all's local variable data
  requests,          \* the URLs handed to session.request, in order
  statuses,          \* the status code of each response, in order
  cursors,           \* the value of response.get("next") of each parsed page
  returned,          \* the list _get_all returned (NoReturn until it does)
  error              \* the exception that left _get_all ("none" until one does)

tvars == <<tpc, day_unit_rate, additional_rates, unit_rate_lookup, lookup_time, lookup_out>>
cvars == <<server, cpc, arg, path, data, requests, statuses, cursors, returned, error>>
vars == <<tvars, cvars>>

(***************************************************************************)
(* Bounds of the model and constants of the program.                       *)
(***************************************************************************)
\* the longest additional_rates list
MaxRates == 2
\* the requests one _get_all call may issue before the model stops following it
MaxRequests == 5
\* the records of one page's "results"
RecordsPerPage == 2
\* 24 * 60: the periods of the timedelta_range
DayMinutes == 1440

(***************************************************************************)
(* tariffs.py                                                              *)
(***************************************************************************)
\* an "HH:MM" string: an optional leading minus sign, the hour and minute numbers
Time(sign, h, m) == [sign |-> sign, h |-> h, m |-> m]
\* a string that is no H:M pair of numbers
Malformed == [sign |-> 0, h |-> 0, m |-> 0]

\* pd.to_timedelta(t + ":00"), pd.Timedelta(t + ":00"): hours, minutes and
\* seconds are summed with no range check on any field; in minutes
to_timedelta(t) == t.sign * (t.h * 60 + t.m)

Rate(unit_rate, start_time, end_time) ==
  [unit_rate |-> unit_rate, start_time |-> start_time, end_time |-> end_time]

\* a range one period short
minutes_short == 0 .. (DayMinutes - 2)

\* pd.timedelta_range(start="00:00:00", periods=24 * 60, freq="min")
minutes == 0 .. (DayMinutes - 1)

\* pd.Series(day_unit_rate, index=minutes)
Series(value, index) == [k \in index |-> value]

\* lookup[key] = value: an existing label is overwritten, a new one is appended
SetItem(lookup, key, value) ==
  [k \in (DOMAIN lookup) \cup {key} |-> IF k = key THEN value ELSE lookup[k]]

\* lookup[mask] = value, the mask given as the set of labels where it is True
SetMask(lookup, mask, value) ==
  [k \in DOMAIN lookup |-> IF k \in mask THEN value ELSE lookup[k]]

\* a mask that takes the end minute in
RangeMaskInclusive(index, start_time, end_time) ==
  {k \in index : k >= start_time /\ k <= end_time}

\* (lookup.index >= start_time) & (lookup.index < end_time)
RangeMask(index, start_time, end_time) ==
  {k \in index : k >= start_time /\ k < end_time}

\* lookup.index >= start_time
FromMask(index, start_time) == {k \in index : k >= start_time}

\* lookup.index < end_time
UntilMask(index, end_time) == {k \in index : k < end_time}

\* one pass of the loop over additional_rates
ApplyRate(lookup, rate) ==
  LET start_time == to_timedelta(rate.start_time)
      end_time == to_timedelta(rate.end_time)
  IN IF start_time = end_time
       THEN SetItem(lookup, start_time, rate.unit_rate)
       ELSE IF start_time < end_time
         THEN SetMask(lookup, RangeMask(DOMAIN lookup, start_time, end_time), rate.unit_rate)
         ELSE SetMask(SetMask(lookup, FromMask(DOMAIN lookup, start_time), rate.unit_rate),
                      UntilMask(DOMAIN lookup, end_time), rate.unit_rate)

RECURSIVE ApplyRates(_, _, _)
ApplyRates(lookup, rates, i) ==
  IF i > Len(rates) THEN lookup
  ELSE ApplyRates(ApplyRate(lookup, rates[i]), rates, i + 1)

\* a compiler that walks the list from its end: the first window wins
compile_first_wins(day, rates) ==
  ApplyRates(Series(day, minutes), [i \in 1 .. Len(rates) |-> rates[Len(rates) + 1 - i]], 1)

\* the loop over additional_rates, from the table of the base rate
compile_unit_rate_lookup(day, rates) ==
  ApplyRates(Series(day, minutes), rates, 1)

\* Tariff.lookup(time): the value at the label, a KeyError when the label is
\* not in the index, a ValueError when the string does not parse
NoLookup == [kind |-> "none", value |-> 0]
lookup(table, time) ==
  IF time = Malformed THEN [kind |-> "ValueError", value |-> 0]
  ELSE IF to_timedelta(time) \in DOMAIN table
    THEN [kind |-> "value", value |-> table[to_timedelta(time)]]
    ELSE [kind |-> "KeyError", value |-> 0]

(***************************************************************************)
(* octopus.py                                                              *)
(***************************************************************************)
\* OctopusEnergyAPIClient.base_url; "h/" stands for "https://api.octopus.energy/"
base_url == <<"h", "/">>

Min(S) == CHOOSE x \in S : \A y \in S : x <= y

\* str.find: the lowest index (from 0) where sub starts in s, -1 when it is not in s
find(s, sub) ==
  LET hits == {i \in 0 .. (Len(s) - Len(sub)) : SubSeq(s, i + 1, i + Len(sub)) = sub}
  IN IF hits = {} THEN -1 ELSE Min(hits)

\* s[i:] for i >= 0
SliceFrom(s, i) == SubSeq(s, i + 1, Len(s))

\* url = f"{self.base_url}{path}"
Url(p) == base_url \o p

\* path = next[next.find(self.base_url) + len(self.base_url) :]
NextPath(next) == SliceFrom(next, find(next, base_url) + Len(base_url))

\* raising for server errors only
raise_for_status_5xx(status) == status >= 500 /\ status < 600

\* response.raise_for_status(): requests raises HTTPError for 4xx and 5xx
raise_for_status(status) == status >= 400 /\ status < 600

\* a list that keeps only the last page
ExtendReplace(list, results) == results

\* data.extend(response["results"])
Extend(list, results) == list \o results

\* "next" is None or "": not next
NoCursor == <<>>

\* the paths the server may hold a page at, and the records of the page at p
Paths == {<<"a">>, <<"b">>, <<"c">>}
Results(p) == [i \in 1 .. RecordsPerPage |-> <<p, i>>]
NoPage == [exists |-> FALSE, next |-> NoCursor]
Page(next) == [exists |-> TRUE, next |-> next]
\* the "next" values a page may carry: none, the URL of a page, a URL with
\* base_url inside it, a URL without base_url
Cursors ==
  {NoCursor} \cup {Url(p) : p \in Paths}
    \cup {<<"x">> \o Url(<<"b">>), <<"g", "/", "b">>}
Servers == [Paths -> {NoPage} \cup {Page(c) : c \in Cursors}]

\* what the server may answer to a GET of url: the page with 200; the page, or
\* a body that is no JSON, with 300; 500 whatever the URL; 404 for no page
Responses(url) ==
  LET here == {p \in Paths : server[p].exists /\ Url(p) = url}
  IN {[status |-> 500, json |-> FALSE, at |-> <<>>]}
       \cup {[status |-> 200, json |-> TRUE, at |-> p] : p \in here}
       \cup {[status |-> 300, json |-> TRUE, at |-> p] : p \in here}
       \cup {[status |-> 300, json |-> FALSE, at |-> <<>>] : p \in here}
       \cup (IF here = {} THEN {[status |-> 404, json |-> FALSE, at |-> <<>>]} ELSE {})

\* client._get_all(p): data = []
GetAllCall(p) ==
  /\ cpc = "idle"
  /\ cpc' = "loop"
  /\ arg' = p
  /\ path' = p
  /\ data' = <<>>
  /\ UNCHANGED <<server, requests, statuses, cursors, returned, error, tvars>>

\* one pass of the while loop: _get -> _request -> session.request,
\* raise_for_status, json(), extend, the "next" test and the new path
GetAllIteration(response) ==
  /\ cpc = "loop"
  /\ Len(requests) < MaxRequests
  /\ requests' = Append(requests, Url(path))
  /\ statuses' = Append(statuses, response.status)
  /\ IF raise_for_status(response.status)
       THEN /\ cpc' = "raised"
            /\ error' = "HTTPError"
            /\ UNCHANGED <<path, data, cursors, returned>>
       ELSE IF ~response.json
         THEN /\ cpc' = "raised"
              /\ error' = "JSONDecodeError"
              /\ UNCHANGED <<path, data, cursors, returned>>
         ELSE LET next == server[response.at].next
                  extended == Extend(data, Results(response.at))
              IN /\ data' = extended
                 /\ cursors' = Append(cursors, next)
                 /\ error' = error
                 /\ IF next = NoCursor
                      THEN /\ cpc' = "returned"
                           /\ returned' = extended
                           /\ path' = path
                      ELSE /\ cpc' = "loop"
                           /\ returned' = returned
                           /\ path' = NextPath(next)
  /\ UNCHANGED <<server, arg, tvars>>


(***************************************************************************)
(* The inputs the model draws.                                             *)
(***************************************************************************)
\* all the lists over S of at most n elements
RECURSIVE ListsUpTo(_, _)
ListsUpTo(S, n) ==
  IF n = 0 THEN {<<>>}
  ELSE LET shorter == ListsUpTo(S, n - 1)
       IN shorter \cup {Append(l, x) : l \in shorter, x \in S}

BaseRates == {10, 20}
UnitRates == {5, 20}
\* the windows within the day: a single minute at 00:00 and at 08:30, the ranges
\* 00:00-08:30 and 08:30-23:59, the overnight ranges 23:59-08:30 and 08:30-00:00
DaySpans ==
  { <<Time(1, 0, 0), Time(1, 0, 0)>>, <<Time(1, 8, 30), Time(1, 8, 30)>>,
    <<Time(1, 0, 0), Time(1, 8, 30)>>, <<Time(1, 8, 30), Time(1, 23, 59)>>,
    <<Time(1, 23, 59), Time(1, 8, 30)>>, <<Time(1, 8, 30), Time(1, 0, 0)>> }
DayWindows == {Rate(u, span[1], span[2]) : u \in UnitRates, span \in DaySpans}
\* windows for the mutable tariff: one within the day, one overnight, one that
\* ends at 24:00 and one that starts and ends at 24:00
TariffWindows ==
  { Rate(5, Time(1, 0, 0), Time(1, 8, 30)), Rate(20, Time(1, 8, 30), Time(1, 0, 0)),
    Rate(20, Time(1, 8, 30), Time(1, 24, 0)), Rate(5, Time(1, 24, 0), Time(1, 24, 0)) }
\* the strings handed to lookup: 00:00, 08:30, 00:60, 07:90, 24:00, -00:01 and
\* one that is no time at all
LookupTimes ==
  { Time(1, 0, 0), Time(1, 8, 30), Time(1, 0, 60), Time(1, 7, 90), Time(1, 24, 0),
    Time(-1, 0, 1), Malformed }

NoTable == <<>>

\* the dataclass-generated __init__ has stored the fields; __post_init__ has
\* not run yet
TariffFields(days, lists) ==
  /\ tpc = "init"
  /\ day_unit_rate \in days
  /\ additional_rates \in lists
  /\ unit_rate_lookup = NoTable
  /\ lookup_time = Malformed
  /\ lookup_out = NoLookup

ClientIdle(servers) ==
  /\ server \in servers
  /\ cpc = "idle"
  /\ arg = <<>>
  /\ path = <<>>
  /\ data = <<>>
  /\ requests = <<>>
  /\ statuses = <<>>
  /\ cursors = <<>>
  /\ returned = <<>>
  /\ error = "none"

\* Tariff.__post_init__
PostInit ==
  /\ tpc = "init"
  /\ tpc' = "ready"
  /\ unit_rate_lookup' = compile_unit_rate_lookup(day_unit_rate, additional_rates)
  /\ UNCHANGED <<day_unit_rate, additional_rates, lookup_time, lookup_out, cvars>>

\* tariff.lookup(time)
Lookup(time) ==
  /\ tpc = "ready"
  /\ lookup_time' = time
  /\ lookup_out' = lookup(unit_rate_lookup, time)
  /\ UNCHANGED <<tpc, day_unit_rate, additional_rates, unit_rate_lookup, cvars>>

\* tariff.day_unit_rate = day: the dataclass is not frozen and has no setter
SetDayUnitRate(day) ==
  /\ tpc = "ready"
  /\ day_unit_rate' = day
  /\ UNCHANGED <<tpc, additional_rates, unit_rate_lookup, lookup_time, lookup_out, cvars>>

\* tariff.additional_rates = rates
SetAdditionalRates(rates) ==
  /\ tpc = "ready"
  /\ additional_rates' = rates
  /\ UNCHANGED <<tpc, day_unit_rate, unit_rate_lookup, lookup_time, lookup_out, cvars>>

\* tariff.additional_rates.append(rate)
AppendRate(rate) ==
  /\ tpc = "ready"
  /\ Len(additional_rates) < MaxRates
  /\ additional_rates' = Append(additional_rates, rate)
  /\ UNCHANGED <<tpc, day_unit_rate, unit_rate_lookup, lookup_time, lookup_out, cvars>>

\* del tariff.additional_rates[i - 1]
RemoveRate(i) ==
  /\ tpc = "ready"
  /\ i \in 1 .. Len(additional_rates)
  /\ additional_rates' =
       SubSeq(additional_rates, 1, i - 1) \o SubSeq(additional_rates, i + 1, Len(additional_rates))
  /\ UNCHANGED <<tpc, day_unit_rate, unit_rate_lookup, lookup_time, lookup_out, cvars>>

(***************************************************************************)
(* SpecCompile: a Tariff is built from a base rate and windows within the  *)
(* day.                                                                    *)
(***************************************************************************)
InitCompile == TariffFields(BaseRates, ListsUpTo(DayWindows, MaxRates)) /\ ClientIdle({<<>>})

NextCompile == PostInit

SpecCompile == InitCompile /\ [][NextCompile]_vars

(***************************************************************************)
(* SpecTariff: a Tariff is built from any windows, its fields are assigned *)
(* and its list of windows changed in place, and it is queried with any    *)
(* string.                                                                 *)
(***************************************************************************)
InitTariff == TariffFields(BaseRates, ListsUpTo(TariffWindows, MaxRates)) /\ ClientIdle({<<>>})

NextTariff ==
  \/ PostInit
  \/ \E time \in LookupTimes : Lookup(time)
  \/ \E day \in BaseRates : SetDayUnitRate(day)
  \/ \E rates \in ListsUpTo(TariffWindows, MaxRates) : SetAdditionalRates(rates)
  \/ \E rate \in TariffWindows : AppendRate(rate)
  \/ \E i \in 1 .. MaxRates : RemoveRate(i)

SpecTariff == InitTariff /\ [][NextTariff]_vars

(***************************************************************************)
(* SpecClient: one _get_all call against a server that holds any pages.    *)
(***************************************************************************)
TariffUnused ==
  /\ tpc = "init"
  /\ day_unit_rate = 0
  /\ additional_rates = <<>>
  /\ unit_rate_lookup = NoTable
  /\ lookup_time = Malformed
  /\ lookup_out = NoLookup

InitClient == TariffUnused /\ ClientIdle(Servers)

NextClient ==
  \/ \E p \in Paths : GetAllCall(p)
  \/ \E response \in Responses(Url(path)) : GetAllIteration(response)

SpecClient == InitClient /\ [][NextClient]_vars

(***************************************************************************)
(* What the specification says a window covers, stated on minutes of the   *)
(* day and independently of the compiler.                                  *)
(***************************************************************************)
InDay(k) == k >= 0 /\ k < DayMinutes
WindowInDay(rate) == InDay(to_timedelta(rate.start_time)) /\ InDay(to_timedelta(rate.end_time))
AllInDay(rates) == \A i \in 1 .. Len(rates) : WindowInDay(rates[i])

\* {start} if start = end, [start, end) if start < end, [start, 1440) and [0, end) otherwise
Coverage(rate) ==
  LET s == to_timedelta(rate.start_time)
      e == to_timedelta(rate.end_time)
  IN IF s = e THEN {s}
     ELSE IF s < e THEN s .. (e - 1)
     ELSE (s .. (DayMinutes - 1)) \cup (0 .. (e - 1))

\* the "HH:MM" string of minute k of the day
TimeOfMinute(k) == Time(1, k \div 60, k % 60)

Reverse(l) == [i \in 1 .. Len(l) |-> l[Len(l) + 1 - i]]

\* C1: for windows within the day, lookup at a minute that some window covers
\* returns the unit_rate of the last window in list order that covers it, whatever
\* the rates are; so for two overlapping windows with different rates the table
\* compiled from the reversed list differs on the overlap.
C1_LastWriteWins ==
  (tpc = "ready" /\ AllInDay(additional_rates)) =>
    LET n == Len(additional_rates)
        cov == [i \in 1 .. n |-> Coverage(additional_rates[i])]
    IN /\ \A i \in 1 .. n :
            LET later == UNION {cov[j] : j \in (i + 1) .. n}
            IN \A k \in cov[i] \ later :
                 lookup(unit_rate_lookup, TimeOfMinute(k)) =
                   [kind |-> "value", value |-> additional_rates[i].unit_rate]
       /\ (n = 2 /\ additional_rates[1].unit_rate # additional_rates[2].unit_rate) =>
            LET reversed == compile_unit_rate_lookup(day_unit_rate, Reverse(additional_rates))
            IN \A k \in cov[1] \cap cov[2] :
                 /\ unit_rate_lookup[k] = additional_rates[2].unit_rate
                 /\ reversed[k] = additional_rates[1].unit_rate

\* two overlapping windows, the first with the higher rate: the table holds the
\* second one's rate on the overlap
C1_Witness ==
  /\ tpc = "ready"
  /\ Len(additional_rates) = 2
  /\ additional_rates[1].unit_rate > additional_rates[2].unit_rate
  /\ to_timedelta(additional_rates[1].start_time) < to_timedelta(additional_rates[1].end_time)
  /\ \E k \in Coverage(additional_rates[1]) \cap Coverage(additional_rates[2]) :
       lookup(unit_rate_lookup, TimeOfMinute(k)) =
         [kind |-> "value", value |-> additional_rates[2].unit_rate]

\* C2: with exactly one window (within the day), lookup returns the window's
\* unit_rate at the minutes of its coverage ({start} if start = end, [start, end)
\* if start < end, [start, 1440) and [0, end) if start > end) and day_unit_rate
\* at every other minute of the day.
C2_SingleWindow ==
  (tpc = "ready" /\ Len(additional_rates) = 1 /\ AllInDay(additional_rates)) =>
    LET rate == additional_rates[1]
        cov == Coverage(rate)
    IN /\ DOMAIN unit_rate_lookup = 0 .. (DayMinutes - 1)
       /\ \A k \in cov :
            lookup(unit_rate_lookup, TimeOfMinute(k)) = [kind |-> "value", value |-> rate.unit_rate]
       /\ \A k \in (0 .. (DayMinutes - 1)) \ cov :
            lookup(unit_rate_lookup, TimeOfMinute(k)) = [kind |-> "value", value |-> day_unit_rate]

\* one overnight window (start > end > 0) whose rate is not the base rate: the
\* minute before its end holds its rate and the minute of its end the base rate
C2_Witness ==
  /\ tpc = "ready"
  /\ Len(additional_rates) = 1
  /\ to_timedelta(additional_rates[1].start_time) > to_timedelta(additional_rates[1].end_time)
  /\ to_timedelta(additional_rates[1].end_time) > 0
  /\ additional_rates[1].unit_rate # day_unit_rate
  /\ lookup(unit_rate_lookup, additional_rates[1].end_time) = [kind |-> "value", value |-> day_unit_rate]
  /\ unit_rate_lookup[to_timedelta(additional_rates[1].end_time) - 1] = additional_rates[1].unit_rate

\* C3: the table compiled from any base rate and any list of windows within the
\* day has exactly the 1440 keys 0..1439, each holding the base rate or the
\* unit_rate of a window of the list; the base rate everywhere for the empty list.
C3_TotalTable ==
  (tpc = "ready" /\ AllInDay(additional_rates)) =>
    LET allowed == {day_unit_rate} \cup
                     {additional_rates[i].unit_rate : i \in 1 .. Len(additional_rates)}
    IN /\ DOMAIN unit_rate_lookup = 0 .. (DayMinutes - 1)
       /\ Cardinality(DOMAIN unit_rate_lookup) = DayMinutes
       /\ \A k \in DOMAIN unit_rate_lookup : unit_rate_lookup[k] \in allowed
       /\ additional_rates = <<>> =>
            \A k \in DOMAIN unit_rate_lookup : unit_rate_lookup[k] = day_unit_rate

\* a table compiled from two windows that holds three different rates
C3_Witness ==
  /\ tpc = "ready"
  /\ Len(additional_rates) = 2
  /\ Cardinality({unit_rate_lookup[k] : k \in DOMAIN unit_rate_lookup}) = 3

\* a string that names a minute of the day: hour 0..23, minute 0..59, no sign
ValidTime(time) ==
  /\ time # Malformed
  /\ time.sign = 1
  /\ time.h \in 0 .. 23
  /\ time.m \in 0 .. 59

\* C4: lookup called with a time that names no minute of the day (hour outside
\* 0..23, minute outside 0..59, 1440 minutes or more, negative, malformed) raises
\* an error and returns no rate. The program has no InvalidTimeError class: any
\* exception raised by lookup is read as one. Stated for a table that holds
\* exactly the minutes of the day.
C4_InvalidTimeRaises ==
  (/\ lookup_out # NoLookup
   /\ ~ValidTime(lookup_time)
   /\ DOMAIN unit_rate_lookup = 0 .. (DayMinutes - 1)) =>
    lookup_out.kind \in {"KeyError", "ValueError"}

\* C5: building a Tariff from a window whose start or end is outside [0, 1440)
\* raises an error: __post_init__ completes only for windows within the day, and
\* the table it leaves has exactly the keys 0..1439.
C5_MalformedWindowRejected ==
  [][(tpc = "init" /\ tpc' = "ready") =>
       (AllInDay(additional_rates) /\ DOMAIN unit_rate_lookup' = 0 .. (DayMinutes - 1))]_vars

\* C6: the table lookup reads is the compilation of the tariff's current
\* day_unit_rate and current additional_rates, whatever was assigned, appended or
\* removed since the tariff was built.
C6_TableIsCurrent ==
  tpc = "ready" =>
    unit_rate_lookup = compile_unit_rate_lookup(day_unit_rate, additional_rates)

(***************************************************************************)
(* The chain of pages the server holds, read off its "next" cursors        *)
(* independently of the client: the page a cursor links to is the page     *)
(* whose URL the cursor is.                                                *)
(***************************************************************************)
Broken == <<>>
RECURSIVE ChainFrom(_, _)
\* the paths of the chain that starts at p, Broken when a page is missing, a
\* cursor is no page's URL, or a page comes twice
ChainFrom(p, seen) ==
  IF p \in seen \/ ~server[p].exists THEN Broken
  ELSE IF server[p].next = NoCursor THEN <<p>>
  ELSE LET linked == {q \in Paths : Url(q) = server[p].next}
       IN IF linked = {} THEN Broken
          ELSE LET rest == ChainFrom(CHOOSE q \in linked : TRUE, seen \cup {p})
               IN IF rest = Broken THEN Broken ELSE <<p>> \o rest

RECURSIVE Concat(_, _)
\* the records of the pages chain[i], chain[i + 1], ... in that order
Concat(chain, i) ==
  IF i > Len(chain) THEN <<>> ELSE Results(chain[i]) \o Concat(chain, i + 1)

AllOk == \A i \in 1 .. Len(statuses) : statuses[i] = 200
NumPages == Cardinality({p \in Paths : server[p].exists})

\* C7: when the server holds a finite chain of N pages from the requested path
\* and every request is answered 200, _get_all never raises, requests the pages'
\* URLs in chain order and nothing else, and returns after exactly N requests with
\* the pages' records concatenated in chain order.
C7_ChainConcatenated ==
  LET chain == ChainFrom(arg, {})
  IN (cpc # "idle" /\ chain # Broken /\ AllOk) =>
       /\ cpc # "raised"
       /\ Len(requests) <= Len(chain)
       /\ \A i \in 1 .. Len(requests) : requests[i] = Url(chain[i])
       /\ data = Concat(SubSeq(chain, 1, Len(requests)), 1)
       /\ cpc = "returned" => (Len(requests) = Len(chain) /\ returned = Concat(chain, 1))
       /\ Len(requests) = Len(chain) => cpc = "returned"

\* a chain of three pages walked to its end
C7_Witness ==
  /\ cpc = "returned"
  /\ AllOk
  /\ Len(ChainFrom(arg, {})) = 3
  /\ Len(requests) = 3
  /\ Len(returned) = 3 * RecordsPerPage

\* C8: whatever the server's cursors are, also when one points back to a page
\* already fetched or to its own page, a call fetches no more pages than the
\* server holds distinct pages.
C8_BoundedByPages == Len(cursors) <= NumPages

\* C9 as claimed: a response whose status is not 2xx ends the call with an
\* error: its request is the last one issued and nothing is returned. Read
\* generously: any exception that ends the call counts as the error.
C9_Non2xxStops ==
  \A i \in 1 .. Len(statuses) :
    ~(statuses[i] >= 200 /\ statuses[i] < 300) =>
      /\ i = Len(statuses)
      /\ i = Len(requests)
      /\ cpc = "raised"
      /\ returned = <<>>

\* C9, amended: a response whose status is 4xx or 5xx ends the call with the
\* HTTP error: the request is the last one issued (not retried, no later page
\* requested) and the records of the earlier pages are not returned.
C9_HttpErrorStops ==
  \A i \in 1 .. Len(statuses) :
    (statuses[i] >= 400 /\ statuses[i] < 600) =>
      /\ i = Len(statuses)
      /\ i = Len(requests)
      /\ cpc = "raised"
      /\ error = "HTTPError"
      /\ returned = <<>>

\* the second page's request answered 500 after the first page's records were
\* taken in
C9_Witness ==
  /\ cpc = "raised"
  /\ error = "HTTPError"
  /\ Len(statuses) = 2
  /\ statuses[2] = 500
  /\ Len(data) = RecordsPerPage
  /\ returned = <<>>

\* C10: every follow-up request goes to exactly the "next" URL the previous
\* page carried, whatever that URL is.
C10_FollowsCursor ==
  \A i \in 1 .. Len(cursors) :
    (i + 1 <= Len(requests)) => requests[i + 1] = cursors[i]

====
